---- MODULE Spec2Model ----
(***************************************************************************)
(* debt-radar: the scan engine (scanner.ts, gitBlame.ts, todos.ts,         *)
(* complexity.ts, deps.ts, staleness.ts) as a state machine.               *)
(*                                                                         *)
(* Data conventions                                                        *)
(*   - a file path is a sequence of segments, <<"src", "a.ts">>;           *)
(*   - a source line is a sequence of words separated by single blanks;    *)
(*     a regex position is the character offset computed from the word     *)
(*     widths, so RegExp.lastIndex is modelled as the code uses it;        *)
(*   - time is counted in ticks, TicksPerDay ticks a day (the code counts  *)
(*     milliseconds, 1000*60*60*24 a day);                                 *)
(*   - md5 of a key string is modelled by the key itself (md5 is taken to  *)
(*     be injective), so two items have the same id iff the code hashes    *)
(*     the same string for them;                                           *)
(*   - undefined is the string Undefined in a string field and None (the   *)
(*     empty sequence) in a number field, where n is Some(n) == <<n>>.     *)
(***************************************************************************)
EXTENDS Integers, Sequences, FiniteSets, TLC

VARIABLES
    call,        \* analyzer harness: the pending call of one analyzer and its inputs
    ret,         \* analyzer harness: what that call returned (NoRet until it returns)
    blameCache,  \* gitBlame.ts: const blameCache = new Map<string, BlameEntry[]>()
    calls,       \* the getBlame calls of concurrent callers, by caller
    pool,        \* the p-limit pool of scanner.ts, counted: tasks queued, running, done
    scanPc,      \* scanWorkspace: where the running scan stands
    env,         \* what the file system, git and npm answer during the running scan
    clock,       \* what Date.now() returns
    scanSha,     \* scanWorkspace: commitSha
    scanFiles,   \* scanWorkspace: files, after truncation
    taskPc,      \* per file: where its limit(async () => ...) task stands
    taskItems,   \* per file: items of its task
    processed,   \* scanWorkspace: processed
    progress,    \* the progressCallback invocations so far, <<current, total, file>>
    allItems,    \* scanWorkspace: allItems
    maps         \* the scans that have returned: [map, env] of each, in order

harnessVars == <<call, ret>>
scanVars ==
    <<scanPc, env, clock, scanSha, scanFiles, taskPc, taskItems, processed, progress, allItems, maps>>
vars == <<call, ret, blameCache, calls, pool, scanVars>>

Undefined == "undefined"
None == <<>>
Some(n) == <<n>>
NoCall == [fn |-> "none"]
NoRet == [returned |-> FALSE]
NoEnv == [isGit |-> FALSE]
IdlePool == [queued |-> 0, todos |-> 0, complexity |-> 0, done |-> 0, scans |-> 0]

\* the parts of the state a specification does not use stay as they start
HarnessIdle == call = NoCall /\ ret = NoRet
BlameIdle == calls = <<>>
PoolIdle == pool = IdlePool
ScanIdle ==
    /\ scanPc = "idle" /\ env = NoEnv /\ clock = 0 /\ scanSha = "" /\ scanFiles = <<>>
    /\ taskPc = <<>> /\ taskItems = <<>> /\ processed = 0 /\ progress = <<>>
    /\ allItems = <<>> /\ maps = <<>>
\* the outcome of a call: the items it resolved with, or threw (it rejected)
Returned(r) == [returned |-> TRUE, threw |-> r.threw, items |-> r.items]

\* ---------------------------------------------------------------- bounds
TicksPerDay == 2
MaxLines == 2
MaxWords == 2
MaxBody == 5
MaxThreshold == 5
MaxFanIn == 13
MaxVulns == 3
MaxCalls == 3

\* ---------------------------------------------------------------- helpers
EmptyMap == [k \in {} |-> Undefined]

MapHas(m, k) == k \in DOMAIN m

MapSet(m, k, v) == [x \in (DOMAIN m) \cup {k} |-> IF x = k THEN v ELSE m[x]]

SeqsUpTo(S, n) == UNION {[1..k -> S] : k \in 0..n}

\* Math.floor(a / b) for b > 0 (\div floors in TLA+, as Math.floor does)
Floor(a, b) == a \div b

Min(a, b) == IF a < b THEN a ELSE b

\* ---------------------------------------------------------------- gitBlame.ts
\* `${filePath}:${commitSha}`
CacheKey(filePath, commitSha) == <<filePath, commitSha>>

\* A porcelain line is one of
\*   [t |-> "hunk", hash, line]   /^[a-f0-9]{40}/ : parts[0], parseInt(parts[2])
\*   [t |-> "author", author]     'author <name>'
\*   [t |-> "time", time]         'author-time <n>' (n already in ticks)
\*   [t |-> "other"]              anything else
\* The parse state is <<currentHash, currentAuthor, currentTimestamp, currentLine>>;
\* '' and 0 are the falsy initial values.
RECURSIVE ParseBlameFrom(_, _, _, _, _, _, _)
ParseBlameFrom(lines, i, currentHash, currentAuthor, currentTimestamp, currentLine, entries) ==
    IF i > Len(lines) THEN entries
    ELSE LET line == lines[i] IN
         IF line.t = "hunk"
         THEN ParseBlameFrom(lines, i + 1, line.hash, currentAuthor, currentTimestamp,
                             line.line, entries)
         ELSE IF line.t = "author"
         THEN ParseBlameFrom(lines, i + 1, currentHash, line.author, currentTimestamp,
                             currentLine, entries)
         ELSE IF line.t = "time"
         THEN ParseBlameFrom(lines, i + 1, currentHash, currentAuthor, line.time, currentLine,
                  IF currentHash # "" /\ currentAuthor # "" /\ line.time # 0
                  THEN Append(entries, [line |-> currentLine, author |-> currentAuthor,
                                        timestamp |-> line.time, commitHash |-> currentHash])
                  ELSE entries)
         ELSE ParseBlameFrom(lines, i + 1, currentHash, currentAuthor, currentTimestamp,
                             currentLine, entries)

ParseBlame(result) == ParseBlameFrom(result, 1, "", "", 0, 0, <<>>)

\* What git.raw(['blame', '--porcelain', filePath]) answers: a stream, or it throws.
GitError == [ok |-> FALSE]
GitAnswer(stream) == [ok |-> TRUE, stream |-> stream]

\* getBlame from the backend's answer on: parse, store, return; or catch, return [].
\* [entries, cache]
GetBlameSettle_NoStore(cache, cacheKey, answer) ==
    IF answer = GitError
    THEN [entries |-> <<>>, cache |-> cache]
    ELSE [entries |-> ParseBlame(answer.stream), cache |-> cache]

GetBlameSettle(cache, cacheKey, answer) ==
    IF answer = GitError
    THEN [entries |-> <<>>, cache |-> cache]
    ELSE LET entries == ParseBlame(answer.stream) IN
         [entries |-> entries, cache |-> MapSet(cache, cacheKey, entries)]

\* getBlame run without interruption: [entries, cache, invoked]
getBlame(cache, filePath, commitSha, answer) ==
    LET cacheKey == CacheKey(filePath, commitSha) IN
    IF MapHas(cache, cacheKey)
    THEN [entries |-> cache[cacheKey], cache |-> cache, invoked |-> FALSE]
    ELSE LET r == GetBlameSettle(cache, cacheKey, answer) IN
         [entries |-> r.entries, cache |-> r.cache, invoked |-> TRUE]

\* const blameMap = new Map(); for (entry of blameEntries) blameMap.set(entry.line, entry)
\* blameMap.get(n): the last entry of that line, or undefined
NoBlame == [line |-> 0, author |-> Undefined, timestamp |-> 0, commitHash |-> Undefined]

BlameMapGet(blameEntries, n) ==
    LET idx == {i \in 1..Len(blameEntries) : blameEntries[i].line = n} IN
    IF idx = {} THEN NoBlame
    ELSE blameEntries[CHOOSE i \in idx : \A j \in idx : j <= i]

\* Math.floor((Date.now() - timestamp) / (1000 * 60 * 60 * 24))
AgeInDays(now, timestamp) == Floor(now - timestamp, TicksPerDay)

\* ---------------------------------------------------------------- todos.ts
TODO_PATTERNS == <<"TODO", "FIXME", "HACK", "XXX", "TEMP">>

\* The words a line of the model is made of, their widths in characters and their
\* upper-case forms (the regex carries the i flag).
Words == {"TODO", "todo", "FIXME", "TODOS", "x"}

Width(w) == CASE w = "TODO" -> 4 [] w = "todo" -> 4 [] w = "FIXME" -> 5
              [] w = "TODOS" -> 5 [] w = "HACK" -> 4 [] w = "XXX" -> 3
              [] w = "TEMP" -> 4 [] w = "fixme" -> 5 [] OTHER -> 1

Upper(w) == CASE w = "todo" -> "TODO" [] w = "fixme" -> "FIXME" [] OTHER -> w

\* character offset of word i of a line (words joined by one blank)
RECURSIVE Offset(_, _)
Offset(line, i) == IF i <= 1 THEN 0 ELSE Offset(line, i - 1) + Width(line[i - 1]) + 1

\* \b(p1|p2|...)\b with flag i, at word i of the line
IsMarker(w, patterns) == \E k \in 1..Len(patterns) : Upper(patterns[k]) = Upper(w)

\* regex.exec(line) of a /g regex: the search starts at lastIndex; a match leaves
\* lastIndex at its end, a failure resets lastIndex to 0.  [match, lastIndex]
RegexExec(line, patterns, lastIndex) ==
    LET hits == {i \in 1..Len(line) : IsMarker(line[i], patterns) /\ Offset(line, i) >= lastIndex} IN
    IF hits = {} THEN [match |-> FALSE, lastIndex |-> 0]
    ELSE LET i == CHOOSE h \in hits : \A g \in hits : h <= g IN
         [match |-> TRUE, lastIndex |-> Offset(line, i) + Width(line[i])]

calculateTodoSeverity(ageInDays) ==
    IF ageInDays > 365 THEN "critical"
    ELSE IF ageInDays > 180 THEN "high"
    ELSE IF ageInDays > 30 THEN "medium"
    ELSE "low"

\* the item pushed for line number lineNumber (todos.ts 31-54)
TodoItem(filePath, lineNumber, line, blameEntries, now) ==
    LET blame == BlameMapGet(blameEntries, lineNumber)
        ageInDays == IF blame # NoBlame THEN AgeInDays(now, blame.timestamp) ELSE 0
    IN [id |-> <<filePath, lineNumber, "todo">>,
        kind |-> "todo",
        severity |-> calculateTodoSeverity(ageInDays),
        file |-> filePath,
        line |-> Some(lineNumber),
        message |-> line,
        author |-> blame.author,
        ageInDays |-> Some(ageInDays),
        lastCommit |-> blame.commitHash]

\* for (let i = 0; i < lines.length; i++) { ... } with the one regex object
RECURSIVE TodoLoop(_, _, _, _, _, _, _, _)
TodoLoop(filePath, lines, patterns, blameEntries, now, n, lastIndex, items) ==
    IF n > Len(lines) THEN items
    ELSE LET m == RegexExec(lines[n], patterns, lastIndex) IN
         TodoLoop(filePath, lines, patterns, blameEntries, now, n + 1, m.lastIndex,
                  IF m.match
                  THEN Append(items, TodoItem(filePath, n, lines[n], blameEntries, now))
                  ELSE items)

\* What fs.readFile answers: the lines of the file (content.split('\n')), or it throws.
ReadError == [ok |-> FALSE]
\* A file that can be read is [lines, functions, imports]: its lines, the
\* FunctionInfo list extractFunctions finds in it, each [name, line, body] with the
\* body a sequence of words, and the targets of its import/require expressions in
\* the order importRegex matches them, each a path such as <<".", "a">>.
FileContentWith(lines, functions, imports) ==
    [ok |-> TRUE, lines |-> lines, functions |-> functions, imports |-> imports]
FileContent(lines) == FileContentWith(lines, <<>>, <<>>)

\* the try block of analyzeTodos: [items, cache, threw].  content and answer are
\* what readFile and the blame backend answer during this call.
analyzeTodosTry(cache, filePath, commitSha, patterns, content, answer, now) ==
    IF content = ReadError
    THEN [items |-> <<>>, cache |-> cache, threw |-> TRUE]
    ELSE LET b == getBlame(cache, filePath, commitSha, answer) IN
         [items |-> TodoLoop(filePath, content.lines, patterns, b.entries, now, 1, 0, <<>>),
          cache |-> b.cache, threw |-> FALSE]

\* catch (error) { console.error(...); return []; }
CatchReturnEmpty(t) == IF t.threw THEN [t EXCEPT !.items = <<>>, !.threw = FALSE] ELSE t

analyzeTodos_NoCatch(cache, filePath, commitSha, patterns, content, answer, now) ==
    analyzeTodosTry(cache, filePath, commitSha, patterns, content, answer, now)

analyzeTodos(cache, filePath, commitSha, patterns, content, answer, now) ==
    CatchReturnEmpty(analyzeTodosTry(cache, filePath, commitSha, patterns, content, answer, now))

\* ---------------------------------------------------------------- harness: analyzeTodos
FileA == <<"src", "a.ts">>

PatternLists == {<<"TODO">>, <<"TODO", "FIXME">>, <<"fixme">>}

Lines == SeqsUpTo(Words, MaxWords)

\* blame ages worth telling apart: one on each side of every band edge
BandAges == {0, 30, 31, 180, 181, 365, 366}

HarnessNow == 400 * TicksPerDay

\* a blame stream attributing line n to a commit of the given age
StreamFor(n, age) ==
    <<[t |-> "hunk", hash |-> "c1", line |-> n],
      [t |-> "author", author |-> "ann"],
      [t |-> "time", time |-> HarnessNow - age * TicksPerDay - 1]>>

InitTodos ==
    /\ \E lines \in SeqsUpTo(Lines, MaxLines) \ {<<>>}, patterns \in PatternLists,
          n \in 1..MaxLines, age \in BandAges, blamed \in BOOLEAN :
          call = [fn |-> "analyzeTodos", filePath |-> FileA, commitSha |-> "c1",
                  patterns |-> patterns, content |-> FileContent(lines),
                  answer |-> IF blamed THEN GitAnswer(StreamFor(n, age)) ELSE GitError,
                  now |-> HarnessNow]
    /\ ret = NoRet
    /\ blameCache = EmptyMap
    /\ BlameIdle /\ PoolIdle /\ ScanIdle

AnalyzeTodosReturns ==
    /\ call.fn = "analyzeTodos"
    /\ ret = NoRet
    /\ LET r == analyzeTodos(blameCache, call.filePath, call.commitSha, call.patterns,
                             call.content, call.answer, call.now) IN
       /\ ret' = Returned(r)
       /\ blameCache' = r.cache
    /\ UNCHANGED <<call, calls, pool, scanVars>>

SpecTodos == InitTodos /\ [][AnalyzeTodosReturns]_vars

\* the number of marker words of a line
MarkerCount(line, patterns) == Cardinality({i \in 1..Len(line) : IsMarker(line[i], patterns)})

\* the age band of the spec: >365 critical, >180 high, >30 medium, otherwise low
AgeBand(age) ==
    CASE age > 365 -> "critical" [] age > 180 /\ age <= 365 -> "high"
      [] age > 30 /\ age <= 180 -> "medium" [] OTHER -> "low"

\* the blame age of line n under the answer the call received (0 with no entry)
BlameAgeOfLine(c, n) ==
    LET entries == IF c.answer.ok THEN ParseBlame(c.answer.stream) ELSE <<>>
        e == BlameMapGet(entries, n)
    IN IF e = NoBlame THEN 0 ELSE (c.now - e.timestamp) \div TicksPerDay

\* C3 (as claimed): every line holding exactly one marker word yields exactly one
\* todo item with that line's number, whatever the other lines hold, and the
\* item's severity is the age band of the line's blame age.
C3_OneItemPerMarkerLine ==
    (call.fn = "analyzeTodos" /\ ret.returned) =>
        \A n \in 1..Len(call.content.lines) :
            MarkerCount(call.content.lines[n], call.patterns) = 1 =>
                LET hits == {i \in 1..Len(ret.items) : ret.items[i].line = Some(n)} IN
                /\ Cardinality(hits) = 1
                /\ \A i \in hits : /\ ret.items[i].kind = "todo"
                                    /\ ret.items[i].severity = AgeBand(BlameAgeOfLine(call, n))

\* ---------------------------------------------------------------- complexity.ts
DEFAULT_THRESHOLDS == [low |-> 5, medium |-> 10, high |-> 15, critical |-> 25]

\* file name -> extension; filePath.match(/\.(ts|tsx|js|jsx)$/)
Ext(segment) ==
    CASE segment \in {"a.ts", "c.ts", "e.ts"} -> "ts"
      [] segment \in {"d.js"} -> "js"
      [] segment \in {"b.py", "f.py"} -> "py"
      [] OTHER -> ""

HasScriptExt(filePath) ==
    /\ Len(filePath) > 0
    /\ Ext(filePath[Len(filePath)]) \in {"ts", "tsx", "js", "jsx"}

\* code.match(/\bw\b/g).length for a keyword or operator w
CountWord(code, w) == Cardinality({i \in 1..Len(code) : code[i] = w})

\* code.match(/\belse\s+if\b/g).length
CountElseIf(code) ==
    Cardinality({i \in 1..Len(code) - 1 : code[i] = "else" /\ code[i + 1] = "if"})

calculateCyclomaticComplexity(code) ==
    1 + CountWord(code, "if") + CountElseIf(code) + CountWord(code, "for")
      + CountWord(code, "while") + CountWord(code, "case") + CountWord(code, "catch")
      + CountWord(code, "&&") + CountWord(code, "||") + CountWord(code, "?")

calculateComplexitySeverity_Strict(complexity, thresholds) ==
    IF complexity > thresholds.critical THEN "critical"
    ELSE IF complexity >= thresholds.high THEN "high"
    ELSE IF complexity >= thresholds.medium THEN "medium"
    ELSE "low"

calculateComplexitySeverity(complexity, thresholds) ==
    IF complexity >= thresholds.critical THEN "critical"
    ELSE IF complexity >= thresholds.high THEN "high"
    ELSE IF complexity >= thresholds.medium THEN "medium"
    ELSE "low"

\* the item pushed for one function (complexity.ts 47-64)
ComplexityItem(filePath, func, complexity, thresholds, blameEntries, now) ==
    LET blame == BlameMapGet(blameEntries, func.line) IN
    [id |-> <<filePath, func.line, "complexity">>,
     kind |-> "complexity",
     severity |-> calculateComplexitySeverity(complexity, thresholds),
     file |-> filePath,
     line |-> Some(func.line),
     message |-> <<func.name, complexity>>,
     author |-> blame.author,
     ageInDays |-> IF blame # NoBlame THEN Some(AgeInDays(now, blame.timestamp)) ELSE None,
     lastCommit |-> blame.commitHash]

\* for (const func of functions) { ... }
RECURSIVE ComplexityLoop(_, _, _, _, _, _, _)
ComplexityLoop(filePath, functions, thresholds, blameEntries, now, k, items) ==
    IF k > Len(functions) THEN items
    ELSE LET complexity == calculateCyclomaticComplexity(functions[k].body) IN
         ComplexityLoop(filePath, functions, thresholds, blameEntries, now, k + 1,
             IF complexity < thresholds.low THEN items
             ELSE Append(items, ComplexityItem(filePath, functions[k], complexity,
                                               thresholds, blameEntries, now)))

\* the try block of analyzeComplexity: [items, cache, threw]
analyzeComplexityTry(cache, filePath, commitSha, thresholds, content, answer, now) ==
    IF ~HasScriptExt(filePath)
    THEN [items |-> <<>>, cache |-> cache, threw |-> FALSE]
    ELSE IF content = ReadError
    THEN [items |-> <<>>, cache |-> cache, threw |-> TRUE]
    ELSE LET b == getBlame(cache, filePath, commitSha, answer) IN
         [items |-> ComplexityLoop(filePath, content.functions, thresholds, b.entries,
                                   now, 1, <<>>),
          cache |-> b.cache, threw |-> FALSE]

analyzeComplexity(cache, filePath, commitSha, thresholds, content, answer, now) ==
    CatchReturnEmpty(analyzeComplexityTry(cache, filePath, commitSha, thresholds, content,
                                          answer, now))

\* ---------------------------------------------------------------- harness: analyzeComplexity
HarnessBodyWords == {"if", "else", "&&", "x"}

ThresholdSets ==
    {[low |-> l, medium |-> m, high |-> h, critical |-> c] :
        <<l, m, h, c>> \in {t \in (1..MaxThreshold) \X (1..MaxThreshold) \X (1..MaxThreshold)
                                  \X (1..MaxThreshold) :
                               t[1] < t[2] /\ t[2] < t[3] /\ t[3] < t[4]}}

InitComplexity ==
    /\ \E body \in SeqsUpTo(HarnessBodyWords, MaxBody), thresholds \in ThresholdSets :
          call = [fn |-> "analyzeComplexity", filePath |-> FileA, commitSha |-> "c1",
                  thresholds |-> thresholds,
                  content |-> FileContentWith(<<>>, <<[name |-> "f", line |-> 1, body |-> body]>>, <<>>),
                  answer |-> GitError, now |-> HarnessNow]
    /\ ret = NoRet
    /\ blameCache = EmptyMap
    /\ BlameIdle /\ PoolIdle /\ ScanIdle

AnalyzeComplexityReturns ==
    /\ call.fn = "analyzeComplexity"
    /\ ret = NoRet
    /\ LET r == analyzeComplexity(blameCache, call.filePath, call.commitSha, call.thresholds,
                                  call.content, call.answer, call.now) IN
       /\ ret' = Returned(r)
       /\ blameCache' = r.cache
    /\ UNCHANGED <<call, calls, pool, scanVars>>

SpecComplexity == InitComplexity /\ [][AnalyzeComplexityReturns]_vars

\* the decision points of a body: the occurrences the nine patterns count
IsDecisionWord(w) == w \in {"if", "for", "while", "case", "catch", "&&", "||", "?"}

DecisionPoints(body) ==
    Cardinality({i \in 1..Len(body) : IsDecisionWord(body[i])})
    + Cardinality({i \in 2..Len(body) : body[i - 1] = "else" /\ body[i] = "if"})

\* the one function the harness call analyzes, and the severity it is reported with
\* ("none" when it is not reported)
HarnessBody == call.content.functions[1].body

ReportedSeverity == IF Len(ret.items) = 1 THEN ret.items[1].severity ELSE "none"

\* C6 (as claimed): with low < medium < high < critical, a body with exactly
\* critical - 1 decision points is reported high, and one with exactly critical
\* decision points is reported critical.
C6_BoundaryOnDecisionPoints ==
    (call.fn = "analyzeComplexity" /\ ret.returned) =>
        /\ DecisionPoints(HarnessBody) = call.thresholds.critical - 1 => ReportedSeverity = "high"
        /\ DecisionPoints(HarnessBody) = call.thresholds.critical => ReportedSeverity = "critical"

\* C6 (amended): the boundary is on the complexity, 1 + decision points.  With
\* integer thresholds low < medium < high < critical, a body with exactly
\* critical - 2 decision points (complexity critical - 1) is reported high, and a
\* body with critical - 1 or critical decision points is reported critical.
C6_BoundaryOnComplexity ==
    (call.fn = "analyzeComplexity" /\ ret.returned) =>
        /\ DecisionPoints(HarnessBody) = call.thresholds.critical - 2 => ReportedSeverity = "high"
        /\ DecisionPoints(HarnessBody) = call.thresholds.critical - 1 => ReportedSeverity = "critical"
        /\ DecisionPoints(HarnessBody) = call.thresholds.critical => ReportedSeverity = "critical"

\* C6 witness: a body with critical - 1 decision points, one of them an else-if
\* counted twice, has been reported critical.
C6_Witness ==
    /\ call.fn = "analyzeComplexity" /\ ret.returned
    /\ DecisionPoints(HarnessBody) = call.thresholds.critical - 1
    /\ CountElseIf(HarnessBody) > 0
    /\ ReportedSeverity = "critical"

\* ---------------------------------------------------------------- staleness.ts
\* What git.log({file, maxCount: 1}) answers: it throws, or log.latest is null, or
\* log.latest.date is a time.
LogError == [ok |-> FALSE, latest |-> None]
LogEmpty == [ok |-> TRUE, latest |-> None]
LogLatest(timestamp) == [ok |-> TRUE, latest |-> Some(timestamp)]

\* fileAges: the <<file, ageInDays>> pairs in insertion order (staleness.ts 20-33)
RECURSIVE FileAges(_, _, _, _)
FileAges(files, logs, now, k) ==
    IF k > Len(files) THEN <<>>
    ELSE LET log == logs[files[k]] IN
         (IF log.ok /\ log.latest # None
          THEN <<(<<files[k], AgeInDays(now, log.latest[1])>>)>>
          ELSE <<>>) \o FileAges(files, logs, now, k + 1)

\* result + '.ts' for a last segment without a script extension
AppendTs(segment) ==
    CASE segment = "a" -> "a.ts" [] segment = "b" -> "b.ts" [] segment = "c" -> "c.ts"
      [] segment = "" -> ".ts" [] OTHER -> segment

RECURSIVE ResolveSegments(_, _, _)
ResolveSegments(parts, k, normalized) ==
    IF k > Len(parts) THEN normalized
    ELSE ResolveSegments(parts, k + 1,
            IF parts[k] = ".."
            THEN (IF normalized = <<>> THEN <<>> ELSE SubSeq(normalized, 1, Len(normalized) - 1))
            ELSE IF parts[k] # "." /\ parts[k] # "" THEN Append(normalized, parts[k])
            ELSE normalized)

normalizeImportPath(fromFile, importPath) ==
    LET fromDir == SubSeq(fromFile, 1, Len(fromFile) - 1)
        normalized == ResolveSegments(fromDir \o importPath, 1, <<>>)
    IN IF normalized = <<>> THEN <<AppendTs("")>>
       ELSE IF HasScriptExt(normalized) THEN normalized
       ELSE SubSeq(normalized, 1, Len(normalized) - 1)
            \o <<AppendTs(normalized[Len(normalized)])>>

\* importPath.startsWith('.')
IsRelative(importPath) == Len(importPath) > 0 /\ importPath[1] \in {".", ".."}

\* the while loop over one file's import matches (staleness.ts 86-93)
RECURSIVE CountImports(_, _, _, _)
CountImports(file, imports, k, importCounts) ==
    IF k > Len(imports) THEN importCounts
    ELSE CountImports(file, imports, k + 1,
            IF IsRelative(imports[k])
            THEN LET normalized == normalizeImportPath(file, imports[k]) IN
                 MapSet(importCounts, normalized,
                        (IF MapHas(importCounts, normalized) THEN importCounts[normalized] ELSE 0) + 1)
            ELSE importCounts)

\* buildImportGraph: contents[file] is what fs.readFile answers for the file
RECURSIVE buildImportGraphFrom(_, _, _, _)
buildImportGraphFrom(files, contents, k, importCounts) ==
    IF k > Len(files) THEN importCounts
    ELSE buildImportGraphFrom(files, contents, k + 1,
            IF ~HasScriptExt(files[k]) \/ contents[files[k]] = ReadError
            THEN importCounts
            ELSE CountImports(files[k], contents[files[k]].imports, 1, importCounts))

buildImportGraph(files, contents) == buildImportGraphFrom(files, contents, 1, EmptyMap)

calculateStaleSeverity_StrictTen(ageInDays, importCount, config) ==
    IF ageInDays > 365 /\ importCount > 10 THEN "critical"
    ELSE IF ageInDays > 365 /\ importCount >= config.staleImportThreshold THEN "high"
    ELSE IF ageInDays > 180 /\ importCount >= config.staleImportThreshold THEN "high"
    ELSE IF ageInDays > 180 THEN "medium"
    ELSE "medium"

calculateStaleSeverity(ageInDays, importCount, config) ==
    IF ageInDays > 365 /\ importCount >= 10 THEN "critical"
    ELSE IF ageInDays > 365 /\ importCount >= config.staleImportThreshold THEN "high"
    ELSE IF ageInDays > 180 /\ importCount >= config.staleImportThreshold THEN "high"
    ELSE IF ageInDays > 180 THEN "medium"
    ELSE "medium"

\* neither continue of the loop is taken (staleness.ts 38-46)
IsReported_NoFanInFilter(ageInDays, importCount, config) ==
    ~(ageInDays < config.staleDaysThreshold)

IsReported(ageInDays, importCount, config) ==
    /\ ~(ageInDays < config.staleDaysThreshold)
    /\ ~(importCount < config.staleImportThreshold)

\* for (const [file, ageInDays] of fileAges) { ... } (staleness.ts 37-62)
RECURSIVE StaleLoop(_, _, _, _, _)
StaleLoop(fileAges, importGraph, config, k, items) ==
    IF k > Len(fileAges) THEN items
    ELSE LET file == fileAges[k][1]
             ageInDays == fileAges[k][2]
             importCount == IF MapHas(importGraph, file) THEN importGraph[file] ELSE 0
         IN StaleLoop(fileAges, importGraph, config, k + 1,
                IF ~IsReported(ageInDays, importCount, config) THEN items
                ELSE Append(items,
                        [id |-> <<file, "stale">>,
                         kind |-> "stale",
                         severity |-> calculateStaleSeverity(ageInDays, importCount, config),
                         file |-> file,
                         line |-> None,
                         message |-> <<ageInDays, importCount>>,
                         author |-> Undefined,
                         ageInDays |-> Some(ageInDays),
                         lastCommit |-> Undefined]))

\* analyzeStaleness: [items, threw].  Every call that can throw sits in a try of
\* its own (the log query, the file read), so the outer catch has nothing to catch.
analyzeStaleness(files, config, logs, contents, now) ==
    [items |-> StaleLoop(FileAges(files, logs, now, 1), buildImportGraph(files, contents),
                         config, 1, <<>>),
     threw |-> FALSE]

\* ---------------------------------------------------------------- harness: analyzeStaleness
FileC == <<"src", "c.ts">>

\* k imports of ./a
ImportsOfA(k) == [i \in 1..k |-> <<".", "a">>]

HarnessAges == {100, 200, 366, 400}
HarnessDayThresholds == {100, 365, 400, 401}
HarnessImportThresholds == {0, 5, 9, 10, 12, 13}

\* FileA, of the given age, is imported fanIn times by FileC, which has no history
InitStale ==
    /\ \E age \in HarnessAges, fanIn \in 0..MaxFanIn,
          days \in HarnessDayThresholds, imports \in HarnessImportThresholds :
          call = [fn |-> "analyzeStaleness", files |-> <<FileA, FileC>>,
                  config |-> [staleDaysThreshold |-> days, staleImportThreshold |-> imports],
                  logs |-> (FileA :> LogLatest(HarnessNow - age * TicksPerDay - 1)
                            @@ FileC :> LogError),
                  contents |-> (FileA :> FileContent(<<>>)
                                @@ FileC :> FileContentWith(<<>>, <<>>, ImportsOfA(fanIn))),
                  now |-> HarnessNow, age |-> age, fanIn |-> fanIn]
    /\ ret = NoRet
    /\ blameCache = EmptyMap
    /\ BlameIdle /\ PoolIdle /\ ScanIdle

AnalyzeStalenessReturns ==
    /\ call.fn = "analyzeStaleness"
    /\ ret = NoRet
    /\ ret' = Returned(analyzeStaleness(call.files, call.config, call.logs, call.contents,
                                        call.now))
    /\ UNCHANGED <<call, blameCache, calls, pool, scanVars>>

SpecStale == InitStale /\ [][AnalyzeStalenessReturns]_vars

\* the severity FileA is reported stale with ("none" when no item names it)
StaleSeverityOfA ==
    LET hits == {i \in 1..Len(ret.items) : ret.items[i].file = FileA /\ ret.items[i].kind = "stale"}
    IN IF hits = {} THEN "none" ELSE ret.items[CHOOSE i \in hits : TRUE].severity

\* C7 (as claimed): for every config with staleDaysThreshold <= 400, a file aged
\* 400 days with fan-in 12 is reported critical, and a file aged 400 days whose
\* fan-in equals staleImportThreshold is reported high.
C7_StaleSeverityAt400 ==
    (call.fn = "analyzeStaleness" /\ ret.returned /\ call.config.staleDaysThreshold <= 400
     /\ call.age = 400) =>
        /\ call.fanIn = 12 => StaleSeverityOfA = "critical"
        /\ call.fanIn = call.config.staleImportThreshold => StaleSeverityOfA = "high"

\* C7 (amended): a file aged 400 days with fan-in 12 is reported critical when
\* staleDaysThreshold <= 400 and staleImportThreshold <= 12; a file aged 400 days
\* whose fan-in equals staleImportThreshold is reported high when
\* staleDaysThreshold <= 400 and staleImportThreshold < 10 (from 10 on it is
\* critical).
C7_StaleSeverityAt400Amended ==
    (call.fn = "analyzeStaleness" /\ ret.returned /\ call.config.staleDaysThreshold <= 400
     /\ call.age = 400) =>
        /\ (call.fanIn = 12 /\ call.config.staleImportThreshold <= 12)
              => StaleSeverityOfA = "critical"
        /\ (call.fanIn = call.config.staleImportThreshold /\ call.config.staleImportThreshold < 10)
              => StaleSeverityOfA = "high"
        /\ (call.fanIn = call.config.staleImportThreshold /\ call.config.staleImportThreshold >= 10)
              => StaleSeverityOfA = "critical"

\* C7 witness: a file aged 400 days whose fan-in is the threshold, 5, has been
\* reported high.
C7_Witness ==
    /\ call.fn = "analyzeStaleness" /\ ret.returned
    /\ call.age = 400 /\ call.fanIn = 5 /\ call.config.staleImportThreshold = 5
    /\ StaleSeverityOfA = "high"

\* C8 (as claimed): a file aged 200 days whose fan-in is below
\* staleImportThreshold is reported as a stale item of severity medium.
C8_MediumBelowThreshold ==
    (call.fn = "analyzeStaleness" /\ ret.returned /\ call.age = 200
     /\ call.fanIn < call.config.staleImportThreshold) => StaleSeverityOfA = "medium"

\* C8 (amended): a file aged 200 days whose fan-in is below staleImportThreshold
\* is skipped: analyzeStaleness reports no stale item for it, whatever
\* staleDaysThreshold is (medium is only what calculateStaleSeverity would answer
\* for such a file, and it is never asked).
C8_SkippedBelowThreshold ==
    (call.fn = "analyzeStaleness" /\ ret.returned /\ call.age = 200
     /\ call.fanIn < call.config.staleImportThreshold) =>
        /\ StaleSeverityOfA = "none"
        /\ calculateStaleSeverity(200, call.fanIn, call.config) = "medium"

\* C8 witness: a file aged 200 days, old enough for the day threshold, with fan-in
\* 4 below the threshold 5, and the call has returned without an item for it.
C8_Witness ==
    /\ call.fn = "analyzeStaleness" /\ ret.returned
    /\ call.age = 200 /\ call.config.staleDaysThreshold <= 200
    /\ call.fanIn = 4 /\ call.config.staleImportThreshold = 5
    /\ StaleSeverityOfA = "none"

\* ---------------------------------------------------------------- deps.ts
\* What the audit of a workspace answers:
\*   manifest  fs.access(package.json) succeeds
\*   exec      "ok" | "timeout" | "nonzero": execPromise resolves, or rejects
\*             after the 10 s timeout, or rejects on a non-zero exit code
\*   json      JSON.parse(stdout) succeeds
\*   hasVulnerabilities, vulnerabilities
\*             auditResult.vulnerabilities is present, and its entries in
\*             Object.entries order, each [pkg, severity, via] with severity a
\*             string or Undefined and via [present, titles]
AuditNoManifest ==
    [manifest |-> FALSE, exec |-> "ok", json |-> FALSE, hasVulnerabilities |-> FALSE,
     vulnerabilities |-> <<>>]
AuditFailed(how) ==
    [manifest |-> TRUE, exec |-> how, json |-> FALSE, hasVulnerabilities |-> FALSE,
     vulnerabilities |-> <<>>]
AuditBadJson ==
    [manifest |-> TRUE, exec |-> "ok", json |-> FALSE, hasVulnerabilities |-> FALSE,
     vulnerabilities |-> <<>>]
AuditNoVulnerabilities ==
    [manifest |-> TRUE, exec |-> "ok", json |-> TRUE, hasVulnerabilities |-> FALSE,
     vulnerabilities |-> <<>>]
AuditReport(vulnerabilities) ==
    [manifest |-> TRUE, exec |-> "ok", json |-> TRUE, hasVulnerabilities |-> TRUE,
     vulnerabilities |-> vulnerabilities]

\* npmSeverity.toLowerCase()
ToLowerCase(w) ==
    CASE w = "CRITICAL" -> "critical" [] w = "HIGH" -> "high" [] OTHER -> w

mapNpmSeverity(npmSeverity) ==
    LET lower == ToLowerCase(npmSeverity) IN
    CASE lower = "critical" -> "critical"
      [] lower = "high" -> "high"
      [] lower = "moderate" -> "medium"
      [] lower = "low" -> "low"
      [] OTHER -> "low"

ManifestFile == <<"package.json">>

\* vuln.severity.toLowerCase() throws on undefined, vuln.via[0] throws on undefined
EntryThrows(vuln) == vuln.severity = Undefined \/ ~vuln.via.present

\* vuln.via[0]?.title || 'Vulnerability detected'
TitleOf(vuln) ==
    IF Len(vuln.via.titles) > 0 /\ vuln.via.titles[1] # "" THEN vuln.via.titles[1]
    ELSE "Vulnerability detected"

DepItem(vuln) ==
    [id |-> <<"dep", vuln.pkg, TitleOf(vuln)>>,
     kind |-> "dep",
     severity |-> mapNpmSeverity(vuln.severity),
     file |-> ManifestFile,
     line |-> None,
     message |-> <<vuln.pkg, TitleOf(vuln)>>,
     author |-> Undefined,
     ageInDays |-> None,
     lastCommit |-> Undefined]

\* for (const [pkg, vuln] of Object.entries(...)): items is declared outside the
\* inner try, so what was pushed before an entry throws stays in it
RECURSIVE DepLoop(_, _, _)
DepLoop(vulnerabilities, k, items) ==
    IF k > Len(vulnerabilities) THEN items
    ELSE IF EntryThrows(vulnerabilities[k]) THEN items
    ELSE DepLoop(vulnerabilities, k + 1, Append(items, DepItem(vulnerabilities[k])))

\* analyzeDependencies: [items, threw]
analyzeDependencies(audit) ==
    IF ~audit.manifest THEN [items |-> <<>>, threw |-> FALSE]
    ELSE IF audit.exec # "ok" \/ ~audit.json THEN [items |-> <<>>, threw |-> FALSE]
    ELSE IF ~audit.hasVulnerabilities THEN [items |-> <<>>, threw |-> FALSE]
    ELSE [items |-> DepLoop(audit.vulnerabilities, 1, <<>>), threw |-> FALSE]

\* ---------------------------------------------------------------- harness: analyzeDependencies
Via(titles) == [present |-> TRUE, titles |-> titles]
NoVia == [present |-> FALSE, titles |-> <<>>]

HarnessVulns ==
    {[pkg |-> "p1", severity |-> "HIGH", via |-> Via(<<"t1">>)],
     [pkg |-> "p2", severity |-> "moderate", via |-> Via(<<>>)],
     [pkg |-> "p3", severity |-> Undefined, via |-> Via(<<"t3">>)],
     [pkg |-> "p4", severity |-> "low", via |-> NoVia]}

HarnessAudits ==
    {AuditNoManifest, AuditFailed("timeout"), AuditFailed("nonzero"), AuditBadJson,
     AuditNoVulnerabilities}
    \cup {AuditReport(v) : v \in SeqsUpTo(HarnessVulns, MaxVulns)}

InitDeps ==
    /\ \E audit \in HarnessAudits : call = [fn |-> "analyzeDependencies", audit |-> audit]
    /\ ret = NoRet
    /\ blameCache = EmptyMap
    /\ BlameIdle /\ PoolIdle /\ ScanIdle

AnalyzeDependenciesReturns ==
    /\ call.fn = "analyzeDependencies"
    /\ ret = NoRet
    /\ ret' = Returned(analyzeDependencies(call.audit))
    /\ UNCHANGED <<call, blameCache, calls, pool, scanVars>>

SpecDeps == InitDeps /\ [][AnalyzeDependenciesReturns]_vars

\* an entry of the vulnerabilities map that is not of the shape
\* {severity: string, via: [...]}
IsMalformedEntry(vuln) == vuln.severity = Undefined \/ ~vuln.via.present

\* the audit timed out, exited non-zero, or printed malformed output
AuditIsFailure(audit) ==
    /\ audit.manifest
    /\ \/ audit.exec \in {"timeout", "nonzero"}
       \/ ~audit.json
       \/ \E k \in 1..Len(audit.vulnerabilities) : IsMalformedEntry(audit.vulnerabilities[k])

\* C9 (as claimed): analyzeDependencies returns an empty list, and does not throw,
\* whenever the audit tool times out, exits non-zero or prints malformed output,
\* including output with well-formed entries followed by a malformed one.
C9_EmptyOnAuditFailure ==
    (call.fn = "analyzeDependencies" /\ ret.returned /\ AuditIsFailure(call.audit)) =>
        (~ret.threw /\ ret.items = <<>>)

\* ---------------------------------------------------------------- concurrent getBlame
\* Each caller makes one getBlame call.  A call is
\*   pc       "idle" | "waiting" (at await git.raw) | "returned"
\*   key      its <<filePath, commitSha>>
\*   entries  what it returned
\*   invoked  it invoked the backend
\*   failed   the backend threw and the call returned []
\* and, recorded for the claims about it,
\*   prior    the same-key calls that had returned, with no clearBlameCache since,
\*            when this call started: [entries, failed, quiet] of each
\*   quiet    no other call of the key was waiting when this call returned
\*   cleared  clearBlameCache ran after this call returned
\*   stored   what its blameCache.set met: "none" (it did not store), "first" (the
\*            key was absent), "same" (the key held an equal list), "replaced"
\*            (the key held another list)
IdleCall ==
    [pc |-> "idle", key |-> <<>>, entries |-> <<>>, invoked |-> FALSE, failed |-> FALSE,
     prior |-> {}, quiet |-> FALSE, cleared |-> FALSE, stored |-> "none"]

BlameShas == {"c1", "c2"}

\* two answers the backend may give for FileA: the working tree may change between
\* two blame runs of the same commit
BlameAnswers == {GitError, GitAnswer(StreamFor(1, 400)), GitAnswer(StreamFor(1, 10))}

InitBlame ==
    /\ HarnessIdle /\ PoolIdle /\ ScanIdle
    /\ blameCache = EmptyMap
    /\ calls = [c \in 1..MaxCalls |-> IdleCall]

PriorOf(key) ==
    {[entries |-> calls[a].entries, failed |-> calls[a].failed, quiet |-> calls[a].quiet] :
        a \in {b \in DOMAIN calls : calls[b].pc = "returned" /\ calls[b].key = key
                                     /\ ~calls[b].cleared}}

QuietFor(c, key) ==
    \A b \in DOMAIN calls \ {c} : ~(calls[b].pc = "waiting" /\ calls[b].key = key)

\* getBlame up to its first await: a cache hit returns at once, a miss invokes
\* git.raw and waits for it
GetBlameCalled(c, filePath, commitSha) ==
    /\ calls[c].pc = "idle"
    /\ LET key == CacheKey(filePath, commitSha) IN
       calls' = [calls EXCEPT ![c] =
                    IF MapHas(blameCache, key)
                    THEN [IdleCall EXCEPT !.pc = "returned", !.key = key,
                                          !.entries = blameCache[key],
                                          !.prior = PriorOf(key), !.quiet = QuietFor(c, key)]
                    ELSE [IdleCall EXCEPT !.pc = "waiting", !.key = key, !.invoked = TRUE,
                                          !.prior = PriorOf(key)]]
    /\ UNCHANGED <<harnessVars, blameCache, pool, scanVars>>

\* git.raw settles: the rest of getBlame
GetBlameSettled(c, answer) ==
    /\ calls[c].pc = "waiting"
    /\ LET r == GetBlameSettle(blameCache, calls[c].key, answer) IN
       /\ blameCache' = r.cache
       /\ calls' = [calls EXCEPT ![c].pc = "returned", ![c].entries = r.entries,
                                 ![c].failed = (answer = GitError),
                                 ![c].quiet = QuietFor(c, calls[c].key),
                                 ![c].stored =
                                     IF answer = GitError THEN "none"
                                     ELSE IF ~MapHas(blameCache, calls[c].key) THEN "first"
                                     ELSE IF blameCache[calls[c].key] = r.entries THEN "same"
                                     ELSE "replaced"]
    /\ UNCHANGED <<harnessVars, pool, scanVars>>

clearBlameCache ==
    /\ blameCache # EmptyMap
    /\ blameCache' = EmptyMap
    /\ calls' = [c \in DOMAIN calls |->
                    IF calls[c].pc = "returned" THEN [calls[c] EXCEPT !.cleared = TRUE]
                    ELSE calls[c]]
    /\ UNCHANGED <<harnessVars, pool, scanVars>>

NextBlame ==
    \/ \E c \in 1..MaxCalls, commitSha \in BlameShas : GetBlameCalled(c, FileA, commitSha)
    \/ \E c \in 1..MaxCalls, answer \in BlameAnswers : GetBlameSettled(c, answer)
    \/ clearBlameCache

SpecBlame == InitBlame /\ [][NextBlame]_vars

\* C10 (as claimed): once a getBlame call of a key has returned, every later call
\* of the key with no clearBlameCache in between returns the same entries without
\* invoking the backend, whatever the outcome of the first call was.
C10_LaterCallsAreFree ==
    \A c \in DOMAIN calls :
        calls[c].pc = "returned" =>
            \A p \in calls[c].prior : ~calls[c].invoked /\ calls[c].entries = p.entries

\* C10 (amended): once a getBlame call of a key that did not fail (its backend
\* call succeeded, or it was served from the cache) has returned, every later call
\* of the key with no clearBlameCache in between returns without invoking the
\* backend; it returns the same entries as that call when no other call of the key
\* was still waiting for the backend as that call returned.  A call that failed
\* stores nothing, and the next call asks the backend again.
C10_LaterCallsAreFreeAfterSuccess ==
    \A c \in DOMAIN calls :
        calls[c].pc = "returned" =>
            \A p \in calls[c].prior :
                /\ ~p.failed => ~calls[c].invoked
                /\ (~p.failed /\ p.quiet) => calls[c].entries = p.entries

\* C10 witness: a call served from the cache with the entries a successful earlier
\* call of the key returned.
C10_Witness ==
    \E c \in DOMAIN calls :
        /\ calls[c].pc = "returned" /\ ~calls[c].invoked
        /\ \E p \in calls[c].prior : ~p.failed /\ p.quiet /\ p.entries = calls[c].entries
                                       /\ p.entries # <<>>

(***************************************************************************)
(* scanner.ts: calculateStats                                              *)
(***************************************************************************)
\* items.filter(item => item[field] === value).length
CountBy_Present(items, field, value) ==
    IF \E i \in 1..Len(items) : items[i][field] = value THEN 1 ELSE 0
CountBy(items, field, value) ==
    Cardinality({i \in 1..Len(items) : items[i][field] = value})

\* { critical: 25, high: 10, medium: 5, low: 2 }[item.severity]
SeverityScore(severity) ==
    CASE severity = "critical" -> 25 [] severity = "high" -> 10
      [] severity = "medium" -> 5 [] OTHER -> 2

\* the second loop of calculateStats: fileScores in insertion order, each entry
\* [file, score, items, importCount]
RECURSIVE FileScores(_, _, _)
FileScores(items, k, fileScores) ==
    IF k > Len(items) THEN fileScores
    ELSE LET item == items[k]
             at == {j \in 1..Len(fileScores) : fileScores[j].file = item.file}
             with == IF at = {}
                     THEN Append(fileScores, [file |-> item.file, score |-> 0,
                                              items |-> <<>>, importCount |-> 0])
                     ELSE fileScores
             j == CHOOSE x \in 1..Len(with) : with[x].file = item.file
         IN FileScores(items, k + 1,
                [with EXCEPT ![j].items = Append(@, item),
                             ![j].score = @ + SeverityScore(item.severity)])

\* .sort((a, b) => b.score - a.score): Array.prototype.sort is stable
RECURSIVE SortByScore_TiesReversed(_, _, _)
SortByScore_TiesReversed(hot, k, sorted) ==
    IF k > Len(hot) THEN sorted
    ELSE LET before == Cardinality({j \in 1..Len(sorted) : sorted[j].score > hot[k].score})
         IN SortByScore_TiesReversed(hot, k + 1,
                SubSeq(sorted, 1, before) \o <<hot[k]>> \o SubSeq(sorted, before + 1, Len(sorted)))

RECURSIVE SortByScore(_, _, _)
SortByScore(hot, k, sorted) ==
    IF k > Len(hot) THEN sorted
    ELSE LET before == Cardinality({j \in 1..Len(sorted) : sorted[j].score >= hot[k].score})
         IN SortByScore(hot, k + 1,
                SubSeq(sorted, 1, before) \o <<hot[k]>> \o SubSeq(sorted, before + 1, Len(sorted)))

\* Array.from(fileScores.entries()).map(...)
HotFileOf_Uncapped(entry) ==
    [file |-> entry.file, score |-> entry.score,
     importCount |-> entry.importCount, debtItems |-> entry.items]
HotFileOf(entry) ==
    [file |-> entry.file, score |-> Min(100, entry.score),
     importCount |-> entry.importCount, debtItems |-> entry.items]

calculateStats(items) ==
    LET fileScores == FileScores(items, 1, <<>>)
        mapped == [j \in 1..Len(fileScores) |-> HotFileOf(fileScores[j])]
        sorted == SortByScore(mapped, 1, <<>>)
    IN [totalDebt |-> Len(items),
        byKind |-> [k \in {"todo", "complexity", "dep", "stale"} |-> CountBy(items, "kind", k)],
        bySeverity |-> [v \in {"critical", "high", "medium", "low"} |->
                            CountBy(items, "severity", v)],
        hotFiles |-> SubSeq(sorted, 1, Min(10, Len(sorted)))]

(***************************************************************************)
(* scanner.ts: the limiter, const limit = pLimit(20).  limit(fn) runs fn   *)
(* at once while fewer than 20 functions it was given are running and      *)
(* queues it otherwise; a function that settles hands its slot to the      *)
(* oldest queued one.  The limiter belongs to the module, so the tasks of  *)
(* scans that overlap share it.  Tasks are counted here, not named: the    *)
(* bound is about how many run, and every task runs the same two steps.    *)
(***************************************************************************)
limit == 20
MaxPoolFiles == 22
MaxPoolScans == 2

ActiveCount(p) == p.todos + p.complexity

\* how many of the functions waiting for the limiter start now
Startable_Unlimited(activeCount, waiting) == waiting
Startable(activeCount, waiting) ==
    IF activeCount < limit THEN Min(waiting, limit - activeCount) ELSE 0

InitPool ==
    /\ HarnessIdle /\ BlameIdle /\ ScanIdle
    /\ blameCache = EmptyMap
    /\ pool = IdlePool

\* a scanWorkspace call reaches files.map(file => limit(...)) with n files
PoolScanMapsFiles(n) ==
    /\ pool.scans < MaxPoolScans
    /\ LET started == Startable(ActiveCount(pool), pool.queued + n)
       IN pool' = [pool EXCEPT !.scans = @ + 1,
                               !.queued = @ + n - started,
                               !.todos = @ + started]
    /\ UNCHANGED <<harnessVars, blameCache, calls, scanVars>>

\* in one running task analyzeTodos returns and analyzeComplexity is called
PoolTaskAnalyzesTodos ==
    /\ pool.todos > 0
    /\ pool' = [pool EXCEPT !.todos = @ - 1, !.complexity = @ + 1]
    /\ UNCHANGED <<harnessVars, blameCache, calls, scanVars>>

\* in one running task analyzeComplexity returns and the task returns its items;
\* the limiter starts the oldest queued task, if any
PoolTaskReturns ==
    /\ pool.complexity > 0
    /\ LET started == Startable(ActiveCount(pool) - 1, Min(pool.queued, 1))
       IN pool' = [pool EXCEPT !.complexity = @ - 1,
                               !.done = @ + 1,
                               !.queued = @ - started,
                               !.todos = @ + started]
    /\ UNCHANGED <<harnessVars, blameCache, calls, scanVars>>

NextPool ==
    \/ \E n \in 0..MaxPoolFiles : PoolScanMapsFiles(n)
    \/ PoolTaskAnalyzesTodos
    \/ PoolTaskReturns

SpecPool == InitPool /\ [][NextPool]_vars

\* C1: at every moment at most 20 per-file tasks have started and not yet finished,
\* however many files the scans found and in whatever order the tasks complete.
C1_AtMostTwentyInFlight == ActiveCount(pool) <= 20

\* C1 witness: 20 tasks are running, one of them already past analyzeTodos, while
\* further files wait for a slot.
C1_Witness ==
    /\ ActiveCount(pool) = 20
    /\ pool.queued > 0
    /\ pool.complexity > 0
    /\ pool.done > 0

(***************************************************************************)
(* scanner.ts: scanWorkspace.  Scans follow one another in one process, so *)
(* blameCache lives on from scan to scan.  The workspace is a fixed file   *)
(* tree at a fixed commit; what varies from scan to scan is which of the   *)
(* reads, blame calls, history queries and the audit fail, and the time.   *)
(***************************************************************************)
MaxFiles == 2
MaxScans == 2
MaxTicks == 2

FileB == <<"src", "b.py">>
FileD == <<"src", "d.js">>
Workspace == <<FileA, FileC, FileB, FileD>>

\* getConfig(), with maxFilesToScan and staleImportThreshold set in the settings
ScanConfig ==
    [staleDaysThreshold |-> 365, staleImportThreshold |-> 1,
     complexityThresholds |-> DEFAULT_THRESHOLDS, todoPatterns |-> TODO_PATTERNS,
     maxFilesToScan |-> MaxFiles]

\* the file tree: what fs.readFile answers for a file that can be read
TreeContent(file) ==
    CASE file = FileA ->
           FileContentWith(<<(<<"TODO">>), (<<"x">>)>>,
                           <<[name |-> "f", line |-> 1,
                              body |-> <<"if", "&&", "for", "?", "||">>]>>,
                           <<(<<".", "c">>)>>)
      [] file = FileC -> FileContentWith(<<(<<"FIXME">>)>>, <<>>, <<(<<".", "a">>)>>)
      [] file = FileD -> FileContentWith(<<(<<"x">>)>>, <<>>, <<(<<".", "a">>)>>)
      [] OTHER -> FileContent(<<(<<"x", "HACK">>)>>)

\* the commit: what git blame answers for a file when it answers.  Line 1 of FileA
\* is 365 days old to the tick as the first scan starts, line 1 of the others 10 days.
TreeBlame(file) ==
    <<[t |-> "hunk", hash |-> "c1", line |-> 1],
      [t |-> "author", author |-> "ann"],
      [t |-> "time", time |-> HarnessNow - (IF file = FileA THEN 365 ELSE 10) * TicksPerDay]>>

\* the commit: what git log answers for a file when it answers.  FileA was last
\* changed 364 days to the tick before the first scan, FileC 400 days, the others
\* have no history.
TreeLog(file) ==
    CASE file = FileA -> LogLatest(HarnessNow - 364 * TicksPerDay)
      [] file = FileC -> LogLatest(HarnessNow - 400 * TicksPerDay)
      [] OTHER -> LogEmpty

Range(f) == {f[i] : i \in DOMAIN f}

\* vscode.workspace.findFiles: one file more than maxFilesToScan when there is one
findFilesToScan == SubSeq(Workspace, 1, Min(MaxFiles + 1, Len(Workspace)))

\* if (files.length > config.maxFilesToScan) files.splice(config.maxFilesToScan)
Truncate(found, maxFilesToScan) ==
    IF Len(found) > maxFilesToScan THEN SubSeq(found, 1, maxFilesToScan) ELSE found

\* The answers of one scan, e:
\*   isGit      git rev-parse --git-dir succeeds (isGitRepository)
\*   shaOk      git log -1 succeeds and has a latest commit (getCurrentCommitSha)
\*   readFails  the files fs.readFile throws for
\*   blameFails the files git blame throws for
\*   logFails   the files git log throws for
\*   audit      what the audit tool does
FailureSets == {{}, {Workspace[1]}, Range(Workspace)}

ScanAudits ==
    {AuditFailed("timeout"),
     AuditReport(<<[pkg |-> "p1", severity |-> "HIGH", via |-> Via(<<"t1">>)]>>)}

\* getCurrentCommitSha is called, and shaOk matters, in a git repository only
Envs ==
    {e \in [isGit : BOOLEAN, shaOk : BOOLEAN, readFails : FailureSets,
            blameFails : FailureSets, logFails : FailureSets, audit : ScanAudits] :
        e.shaOk => e.isGit}

\* the version-control backend is unavailable: every git call fails
Unavailable(e) ==
    [e EXCEPT !.isGit = FALSE, !.shaOk = FALSE, !.blameFails = Range(Workspace),
              !.logFails = Range(Workspace)]

IsUnavailable(e) == e = Unavailable(e)

ReadAnswer(e, file) == IF file \in e.readFails THEN ReadError ELSE TreeContent(file)
BlameAnswer(e, file) == IF file \in e.blameFails THEN GitError ELSE GitAnswer(TreeBlame(file))
LogAnswer(e, file) == IF file \in e.logFails THEN LogError ELSE TreeLog(file)

\* log.latest?.hash || '', or '' from the catch
getCurrentCommitSha(e) == IF e.shaOk THEN "c1" ELSE ""

InitScan ==
    /\ HarnessIdle /\ BlameIdle /\ PoolIdle
    /\ blameCache = EmptyMap
    /\ scanPc = "idle" /\ env = NoEnv /\ clock = HarnessNow /\ scanSha = ""
    /\ scanFiles = <<>> /\ taskPc = <<>> /\ taskItems = <<>> /\ processed = 0
    /\ progress = <<>> /\ allItems = <<>> /\ maps = <<>>

\* the answers a scan may meet: any for the first scan of the process; a later scan
\* meets those of the scan before it, or those with the backend gone
NextEnvs == IF maps = <<>> THEN Envs ELSE {env, Unavailable(env)}

RunningTasks(pcs) == Cardinality({i \in DOMAIN pcs : pcs[i] \in {"todos", "complexity"}})

\* lines 17-52: up to the first await that a task of the scan can overtake
ScanWorkspaceCalled(e) ==
    /\ scanPc \in {"idle", "returned"}
    /\ Len(maps) < MaxScans
    /\ LET isGit == e.isGit
           files == Truncate(findFilesToScan, ScanConfig.maxFilesToScan)
           started == Startable(0, Len(files))
       IN /\ scanSha' = IF isGit THEN getCurrentCommitSha(e) ELSE ""
          /\ scanFiles' = files
          /\ taskPc' = [i \in 1..Len(files) |-> IF i <= started THEN "todos" ELSE "queued"]
          /\ taskItems' = [i \in 1..Len(files) |-> <<>>]
    /\ env' = e
    /\ allItems' = <<>>
    /\ processed' = 0
    /\ progress' = <<>>
    /\ scanPc' = "files"
    /\ UNCHANGED <<harnessVars, blameCache, calls, pool, clock, maps>>

\* lines 37-40 of the task of files[i]
TaskAnalyzesTodos(i) ==
    /\ scanPc = "files"
    /\ i \in DOMAIN taskPc /\ taskPc[i] = "todos"
    /\ LET file == scanFiles[i]
           todoItems == analyzeTodos(blameCache, file, scanSha, ScanConfig.todoPatterns,
                                     ReadAnswer(env, file), BlameAnswer(env, file), clock)
       IN /\ blameCache' = todoItems.cache
          /\ IF todoItems.threw
             THEN scanPc' = "rejected" /\ UNCHANGED <<taskPc, taskItems>>
             ELSE /\ taskItems' = [taskItems EXCEPT ![i] = @ \o todoItems.items]
                  /\ taskPc' = [taskPc EXCEPT ![i] = "complexity"]
                  /\ UNCHANGED scanPc
    /\ UNCHANGED <<harnessVars, calls, pool, env, clock, scanSha, scanFiles, processed,
                   progress, allItems, maps>>

\* processed++; progressCallback(processed, files.length, file): [processed, call]
TaskReports_BeforeIncrement(count, total, file) ==
    [processed |-> count + 1, call |-> <<count, total, file>>]
TaskReports(count, total, file) ==
    [processed |-> count + 1, call |-> <<count + 1, total, file>>]

\* lines 42-50 of the task of files[i], and the limiter starting the next queued task
TaskAnalyzesComplexity(i) ==
    /\ scanPc = "files"
    /\ i \in DOMAIN taskPc /\ taskPc[i] = "complexity"
    /\ LET file == scanFiles[i]
           complexityItems ==
               analyzeComplexity(blameCache, file, scanSha, ScanConfig.complexityThresholds,
                                 ReadAnswer(env, file), BlameAnswer(env, file), clock)
           queued == {j \in DOMAIN taskPc : taskPc[j] = "queued"}
           started == Startable(RunningTasks(taskPc) - 1, Min(Cardinality(queued), 1))
       IN /\ blameCache' = complexityItems.cache
          /\ IF complexityItems.threw
             THEN scanPc' = "rejected" /\ UNCHANGED <<taskPc, taskItems, processed, progress>>
             ELSE /\ taskItems' = [taskItems EXCEPT ![i] = @ \o complexityItems.items]
                  /\ processed' = TaskReports(processed, Len(scanFiles), file).processed
                  /\ progress' = Append(progress,
                                        TaskReports(processed, Len(scanFiles), file).call)
                  /\ taskPc' = [j \in DOMAIN taskPc |->
                                  IF j = i THEN "done"
                                  ELSE IF started > 0 /\ j \in queued
                                          /\ \A q \in queued : j <= q THEN "todos"
                                  ELSE taskPc[j]]
                  /\ UNCHANGED scanPc
    /\ UNCHANGED <<harnessVars, calls, pool, env, clock, scanSha, scanFiles, allItems, maps>>

\* the order the tasks of the scan settled in, as indexes into files
CompletionOrder ==
    [k \in 1..Len(progress) |-> CHOOSE i \in DOMAIN scanFiles : scanFiles[i] = progress[k][3]]

\* await Promise.all(scanPromises): the results in the order of the promises
PromiseAll_AsSettled(results, settled) == [k \in 1..Len(settled) |-> results[settled[k]]]
PromiseAll(results, settled) == results

\* for (const items of results) allItems.push(...items)
RECURSIVE Flatten(_, _)
Flatten(results, k) ==
    IF k > Len(results) THEN <<>> ELSE results[k] \o Flatten(results, k + 1)

\* await Promise.all(scanPromises) goes on once every task promise has resolved
PromiseAllSettled_AnyOne(pcs) == pcs = <<>> \/ \E i \in DOMAIN pcs : pcs[i] = "done"
PromiseAllSettled(pcs) == \A i \in DOMAIN pcs : pcs[i] = "done"

\* lines 54-60
ScanAnalyzesDependencies ==
    /\ scanPc = "files"
    /\ PromiseAllSettled(taskPc)
    /\ LET results == PromiseAll(taskItems, CompletionOrder)
           depItems == analyzeDependencies(env.audit)
       IN IF depItems.threw
          THEN scanPc' = "rejected" /\ UNCHANGED allItems
          ELSE /\ allItems' = allItems \o Flatten(results, 1) \o depItems.items
               /\ scanPc' = "deps"
    /\ UNCHANGED <<harnessVars, blameCache, calls, pool, env, clock, scanSha, scanFiles,
                   taskPc, taskItems, processed, progress, maps>>

\* lines 62-75
ScanAnalyzesStaleness ==
    /\ scanPc = "deps"
    /\ LET staleItems ==
               analyzeStaleness(scanFiles,
                                [staleDaysThreshold |-> ScanConfig.staleDaysThreshold,
                                 staleImportThreshold |-> ScanConfig.staleImportThreshold],
                                [f \in Range(scanFiles) |-> LogAnswer(env, f)],
                                [f \in Range(scanFiles) |-> ReadAnswer(env, f)], clock)
           items == allItems \o staleItems.items
           stats == calculateStats(items)
       IN IF staleItems.threw
          THEN scanPc' = "rejected" /\ UNCHANGED <<allItems, maps>>
          ELSE /\ allItems' = items
               /\ maps' = Append(maps,
                                 [map |-> [items |-> items, scannedAt |-> clock,
                                           commitSha |-> scanSha, stats |-> stats],
                                  env |-> env])
               /\ scanPc' = "returned"
    /\ UNCHANGED <<harnessVars, blameCache, calls, pool, env, clock, scanSha, scanFiles,
                   taskPc, taskItems, processed, progress>>

\* Date.now() moves on between two scans
TimePasses ==
    /\ scanPc = "returned"
    /\ Len(maps) < MaxScans
    /\ clock < HarnessNow + MaxTicks
    /\ clock' = clock + 1
    /\ UNCHANGED <<harnessVars, blameCache, calls, pool, scanPc, env, scanSha, scanFiles,
                   taskPc, taskItems, processed, progress, allItems, maps>>

Next ==
    \/ \E e \in NextEnvs : ScanWorkspaceCalled(e)
    \/ \E i \in 1..MaxFiles : TaskAnalyzesTodos(i)
    \/ \E i \in 1..MaxFiles : TaskAnalyzesComplexity(i)
    \/ ScanAnalyzesDependencies
    \/ ScanAnalyzesStaleness
    \/ TimePasses

Spec == InitScan /\ [][Next]_vars

\* ---------------------------------------------------------------- claims on scanWorkspace
ScannedFiles == Truncate(findFilesToScan, ScanConfig.maxFilesToScan)

IdsOf(items) == [j \in 1..Len(items) |-> items[j].id]

\* what an analyzer that does not fail finds in a file, whatever the blame says
TodoIdsOf(file) ==
    Range(IdsOf(analyzeTodos(EmptyMap, file, "", ScanConfig.todoPatterns, TreeContent(file),
                             GitError, 0).items))
ComplexityIdsOf(file) ==
    Range(IdsOf(analyzeComplexity(EmptyMap, file, "", ScanConfig.complexityThresholds,
                                  TreeContent(file), GitError, 0).items))
StaleItemsOf(e, now) ==
    analyzeStaleness(ScannedFiles,
                     [staleDaysThreshold |-> ScanConfig.staleDaysThreshold,
                      staleImportThreshold |-> ScanConfig.staleImportThreshold],
                     [f \in Range(ScannedFiles) |-> LogAnswer(e, f)],
                     [f \in Range(ScannedFiles) |-> ReadAnswer(e, f)], now).items

\* C2: whatever reads, blame calls, history queries and the audit fail during a
\* scan, scanWorkspace does not reject, and while it waits for its tasks one of
\* them is running or all are done, so that it goes on to return; the returned map
\* holds the todo and complexity items of every file that could be read, the items
\* of the audit that ran, and the stale items of the files whose history could be
\* queried.
C2_ScanAlwaysReturns ==
    /\ scanPc # "rejected"
    /\ scanPc = "files" =>
           \/ \E i \in DOMAIN taskPc : taskPc[i] \in {"todos", "complexity"}
           \/ \A i \in DOMAIN taskPc : taskPc[i] = "done"
    /\ \A k \in DOMAIN maps :
         LET m == maps[k].map
             e == maps[k].env
             ids == Range(IdsOf(m.items))
         IN /\ \A file \in Range(ScannedFiles) \ e.readFails :
                   TodoIdsOf(file) \cup ComplexityIdsOf(file) \subseteq ids
            /\ Range(analyzeDependencies(e.audit).items) \subseteq Range(m.items)
            /\ Range(StaleItemsOf(e, m.scannedAt)) \subseteq Range(m.items)

\* C2 witness: a scan has returned in which the read of FileA, the audit, blame
\* calls and history queries failed, and the map holds the todo item of FileC.
C2_Witness ==
    \E k \in DOMAIN maps :
        /\ FileA \in maps[k].env.readFails
        /\ maps[k].env.audit.exec # "ok"
        /\ maps[k].env.blameFails # {} /\ maps[k].env.logFails # {}
        /\ \E j \in 1..Len(maps[k].map.items) :
               maps[k].map.items[j].kind = "todo" /\ maps[k].map.items[j].file = FileC

\* what C4 compares of the stats
StatsView(stats) ==
    [totalDebt |-> stats.totalDebt, byKind |-> stats.byKind, bySeverity |-> stats.bySeverity,
     hotFiles |-> [j \in 1..Len(stats.hotFiles) |->
                      <<stats.hotFiles[j].file, stats.hotFiles[j].score>>]]

SameIdsAndStats(m1, m2) ==
    /\ IdsOf(m1.items) = IdsOf(m2.items)
    /\ StatsView(m1.stats) = StatsView(m2.stats)

\* every blamed line and every file history is as many whole days old at t1 as at t2
SameAges(t1, t2) ==
    \A file \in Range(ScannedFiles) :
        /\ \A j \in 1..Len(TreeBlame(file)) :
               TreeBlame(file)[j].t = "time" =>
                   AgeInDays(t1, TreeBlame(file)[j].time) = AgeInDays(t2, TreeBlame(file)[j].time)
        /\ TreeLog(file).latest # None =>
               AgeInDays(t1, TreeLog(file).latest[1]) = AgeInDays(t2, TreeLog(file).latest[1])

\* C4 (as claimed): two scans of the unchanged tree at the same commit that meet the
\* same backend answers return the same sequence of item ids and the same stats,
\* whatever order their tasks complete in.
C4_SameScanSameMap ==
    \A j \in DOMAIN maps, k \in DOMAIN maps :
        maps[j].env = maps[k].env => SameIdsAndStats(maps[j].map, maps[k].map)

\* C4 (amended): they do when, in addition, every blamed line and every file's last
\* commit is as many whole days old at the one scan as at the other; ages are taken
\* against the clock of the scan, so a scan on a later day can move an item into
\* another severity band and a file over the staleness threshold.
C4_SameScanSameMapOnSameDay ==
    \A j \in DOMAIN maps, k \in DOMAIN maps :
        (maps[j].env = maps[k].env /\ SameAges(maps[j].map.scannedAt, maps[k].map.scannedAt))
            => SameIdsAndStats(maps[j].map, maps[k].map)

\* C4 witness: two scans that met the same answers, at different times of the same
\* day, returned maps with items of two files and the same ids and stats.
C4_Witness ==
    \E j \in DOMAIN maps, k \in DOMAIN maps :
        /\ maps[j].env = maps[k].env
        /\ maps[j].map.scannedAt # maps[k].map.scannedAt
        /\ SameAges(maps[j].map.scannedAt, maps[k].map.scannedAt)
        /\ Len(maps[j].map.stats.hotFiles) >= 2
        /\ SameIdsAndStats(maps[j].map, maps[k].map)

\* an item without what blame adds to it
Finding(item) ==
    [id |-> item.id, kind |-> item.kind, severity |-> item.severity, file |-> item.file,
     line |-> item.line, message |-> item.message]

ItemsOfKind(items, kind) == SelectSeq(items, LAMBDA item : item.kind = kind)

FindingsOfKind(items, kind) ==
    LET of == ItemsOfKind(items, kind) IN [j \in 1..Len(of) |-> Finding(of[j])]

\* the complexity findings of the files that can be read under e, in file order,
\* with the backend there
RECURSIVE ComplexityFindingsWithBackend(_, _)
ComplexityFindingsWithBackend(e, k) ==
    IF k > Len(ScannedFiles) THEN <<>>
    ELSE FindingsOfKind(analyzeComplexity(EmptyMap, ScannedFiles[k], "c1",
                                          ScanConfig.complexityThresholds,
                                          ReadAnswer(e, ScannedFiles[k]),
                                          GitAnswer(TreeBlame(ScannedFiles[k])),
                                          HarnessNow).items, "complexity")
         \o ComplexityFindingsWithBackend(e, k + 1)

\* C5 (as claimed): a scan that finds the version-control backend unavailable
\* returns a map with commitSha "", every todo item of age 0 and severity low, no
\* stale item, and the complexity and dependency findings it would have with the
\* backend available, whatever scans went before it in the process.
C5_DegradesWithoutBackend ==
    \A k \in DOMAIN maps :
        IsUnavailable(maps[k].env) =>
            LET items == maps[k].map.items IN
            /\ maps[k].map.commitSha = ""
            /\ \A j \in 1..Len(items) :
                   items[j].kind = "todo" =>
                       items[j].ageInDays = Some(0) /\ items[j].severity = "low"
            /\ ItemsOfKind(items, "stale") = <<>>
            /\ FindingsOfKind(items, "complexity") = ComplexityFindingsWithBackend(maps[k].env, 1)
            /\ ItemsOfKind(items, "dep") = analyzeDependencies(maps[k].env.audit).items

\* C11: in every scan the progress callback is invoked once per scanned file, for a
\* file whose two analyzers have finished, with processed counts 1, 2, ... in
\* invocation order and total the number of files left after truncation to
\* maxFilesToScan; when the tasks are all done it has been invoked total times.
C11_ProgressCountsUp ==
    LET total == Min(Len(findFilesToScan), ScanConfig.maxFilesToScan) IN
    /\ \A k \in 1..Len(progress) :
           /\ progress[k][1] = k
           /\ progress[k][2] = total
           /\ \E i \in DOMAIN scanFiles : scanFiles[i] = progress[k][3] /\ taskPc[i] = "done"
    /\ \A j \in 1..Len(progress), k \in 1..Len(progress) :
           progress[j][3] = progress[k][3] => j = k
    /\ \A i \in DOMAIN taskPc :
           taskPc[i] = "done" => \E k \in 1..Len(progress) : progress[k][3] = scanFiles[i]
    /\ scanPc \in {"deps", "returned"} => Len(progress) = total

\* C11 witness: a scan has returned whose second file completed first, and the
\* callback saw 1 and then 2 with the files in completion order.
C11_Witness ==
    /\ scanPc = "returned"
    /\ Len(progress) >= 2
    /\ progress[1][3] = scanFiles[2]
    /\ progress[1][1] = 1 /\ progress[2][1] = 2
    /\ Len(findFilesToScan) > ScanConfig.maxFilesToScan

\* ---------------------------------------------------------------- harness: calculateStats
MaxStatFiles == 12
MaxStatItems == 3

Severities == <<"critical", "high", "medium", "low">>

StatFile(i) == <<"src", i>>

\* an item as calculateStats reads it: kind, severity and file
StatItem(kind, severity, file) ==
    [id |-> <<file, kind>>, kind |-> kind, severity |-> severity, file |-> file]

\* every list of up to MaxStatItems items over two files, two kinds, all severities
ShortItemLists ==
    SeqsUpTo({StatItem(k, Severities[v], StatFile(f)) :
                  k \in {"todo", "dep"}, v \in 1..4, f \in 1..2}, MaxStatItems)

\* the items of file i of a workspace of a given shape
\*   "same"  one high item each (every score ties)
\*   "cycle" one item each, the severities in turn
\*   "pair"  one critical and one low item each
\*   "mixed" five critical items in every fifth file, a critical and a low one
\*           in every third, one low or medium item in the others
\*   "grow"  five critical items in every fifth file (they weigh 125), one in the others
ShapedItemsOf(shape, i) ==
    CASE shape = "same" -> <<StatItem("todo", "high", StatFile(i))>>
      [] shape = "cycle" -> <<StatItem("complexity", Severities[(i % 4) + 1], StatFile(i))>>
      [] shape = "pair" -> <<StatItem("stale", "critical", StatFile(i)),
                             StatItem("todo", "low", StatFile(i))>>
      [] shape = "mixed" ->
           IF i % 5 = 0 THEN [j \in 1..5 |-> StatItem("complexity", "critical", StatFile(i))]
           ELSE IF i % 3 = 0 THEN <<StatItem("stale", "critical", StatFile(i)),
                                    StatItem("todo", "low", StatFile(i))>>
           ELSE <<StatItem("dep", IF i % 4 = 3 THEN "low" ELSE "medium", StatFile(i))>>
      [] OTHER -> [j \in 1..(IF i % 5 = 0 THEN 5 ELSE 1) |->
                      StatItem("todo", "critical", StatFile(i))]

\* the items of files 1..n one file after the other, in order or in reverse
RECURSIVE GroupedItems(_, _, _, _)
GroupedItems(shape, n, i, reversed) ==
    IF i > n THEN <<>>
    ELSE ShapedItemsOf(shape, IF reversed THEN n + 1 - i ELSE i)
         \o GroupedItems(shape, n, i + 1, reversed)

\* the items of files 1..n in rounds: the first of each file, then the second, ...
RECURSIVE RoundItems(_, _, _)
RoundItems(shape, n, r) ==
    IF r > 5 THEN <<>>
    ELSE Flatten([i \in 1..n |-> IF r <= Len(ShapedItemsOf(shape, i))
                                 THEN <<ShapedItemsOf(shape, i)[r]>> ELSE <<>>], 1)
         \o RoundItems(shape, n, r + 1)

ShapedItemLists ==
    {GroupedItems(shape, n, 1, reversed) :
         shape \in {"same", "cycle", "pair", "mixed", "grow"}, n \in 0..MaxStatFiles,
         reversed \in BOOLEAN}
    \cup {RoundItems(shape, n, 1) : shape \in {"pair", "mixed", "grow"}, n \in 0..MaxStatFiles}

InitStats ==
    /\ \E items \in ShortItemLists \cup ShapedItemLists :
           call = [fn |-> "calculateStats", items |-> items]
    /\ ret = NoRet
    /\ blameCache = EmptyMap
    /\ BlameIdle /\ PoolIdle /\ ScanIdle

CalculateStatsReturns ==
    /\ call.fn = "calculateStats"
    /\ ret = NoRet
    /\ ret' = [returned |-> TRUE, stats |-> calculateStats(call.items)]
    /\ UNCHANGED <<call, blameCache, calls, pool, scanVars>>

SpecStats == InitStats /\ [][CalculateStatsReturns]_vars

StatsReturned == call.fn = "calculateStats" /\ ret.returned

\* C12: in the stats of every item list the four byKind counts add up to the number
\* of items, so do the four bySeverity counts, and totalDebt is the number of items.
C12_CountsSumToItems ==
    StatsReturned =>
        LET stats == ret.stats IN
        /\ stats.byKind["todo"] + stats.byKind["complexity"] + stats.byKind["dep"]
             + stats.byKind["stale"] = Len(call.items)
        /\ stats.bySeverity["critical"] + stats.bySeverity["high"]
             + stats.bySeverity["medium"] + stats.bySeverity["low"] = Len(call.items)
        /\ stats.totalDebt = Len(call.items)

\* C12 witness: stats of a list with items of two kinds and several of one severity
C12_Witness ==
    /\ StatsReturned
    /\ ret.stats.byKind["todo"] > 0 /\ ret.stats.byKind["stale"] > 0
    /\ ret.stats.bySeverity["critical"] > 1 /\ ret.stats.bySeverity["low"] > 1

\* the weights and the score as the spec gives them
ClaimedWeight(severity) ==
    CASE severity = "critical" -> 25 [] severity = "high" -> 10
      [] severity = "medium" -> 5 [] severity = "low" -> 2

RECURSIVE WeightSum(_, _, _)
WeightSum(items, file, k) ==
    IF k > Len(items) THEN 0
    ELSE (IF items[k].file = file THEN ClaimedWeight(items[k].severity) ELSE 0)
         + WeightSum(items, file, k + 1)

ClaimedScore(items, file) == Min(100, WeightSum(items, file, 1))

FilesWithItems(items) == {items[i].file : i \in 1..Len(items)}

FirstItemOf(items, file) ==
    CHOOSE i \in 1..Len(items) :
        items[i].file = file /\ \A j \in 1..Len(items) : items[j].file = file => i <= j

\* C13: hotFiles holds min(10, number of files with an item) distinct files, by
\* score descending; no file left out scores higher than a file in the list; files
\* of equal score stand in the order of their first items.
C13_HotFilesAreTheTopTen ==
    StatsReturned =>
        LET hot == ret.stats.hotFiles
            items == call.items
            listed == {hot[j].file : j \in 1..Len(hot)}
        IN /\ Len(hot) = Min(10, Cardinality(FilesWithItems(items)))
           /\ Cardinality(listed) = Len(hot)
           /\ listed \subseteq FilesWithItems(items)
           /\ \A j \in 1..Len(hot), k \in 1..Len(hot) :
                  j < k =>
                      /\ hot[j].score >= hot[k].score
                      /\ hot[j].score = hot[k].score =>
                             FirstItemOf(items, hot[j].file) < FirstItemOf(items, hot[k].file)
           /\ \A file \in FilesWithItems(items) \ listed :
                  \A j \in 1..Len(hot) : ClaimedScore(items, file) <= hot[j].score

\* C13 witness: more than ten files have items, the list holds ten of them, two of
\* the listed files tie, a file left out scores less than the last one listed, and
\* the first file of the list is not the file of the first item.
C13_Witness ==
    /\ StatsReturned
    /\ Cardinality(FilesWithItems(call.items)) > 10
    /\ Len(ret.stats.hotFiles) = 10
    /\ ret.stats.hotFiles[1].score = ret.stats.hotFiles[2].score
    /\ ret.stats.hotFiles[1].score > ret.stats.hotFiles[10].score
    /\ ret.stats.hotFiles[1].file # call.items[1].file
    /\ \E file \in FilesWithItems(call.items) :
           ClaimedScore(call.items, file) < ret.stats.hotFiles[10].score

\* C14: the score of every hot file is min(100, the sum of the weights of its
\* items), with critical 25, high 10, medium 5, low 2; it lies in 0..100; a file
\* with one critical and one low item scores 27.
C14_ScoreIsCappedWeightSum ==
    StatsReturned =>
        \A j \in 1..Len(ret.stats.hotFiles) :
            LET h == ret.stats.hotFiles[j]
                own == SelectSeq(call.items, LAMBDA item : item.file = h.file)
            IN /\ h.score = ClaimedScore(call.items, h.file)
               /\ h.score \in 0..100
               /\ (Len(own) = 2 /\ own[1].severity = "critical" /\ own[2].severity = "low")
                      => h.score = 27

\* C14 witness: one hot file has one critical and one low item and scores 27,
\* another has weights summing past 100 and scores 100.
C14_Witness ==
    /\ StatsReturned
    /\ \E j \in 1..Len(ret.stats.hotFiles) :
           LET h == ret.stats.hotFiles[j] IN
           /\ Len(h.debtItems) = 2 /\ h.score = 27
           /\ h.debtItems[1].severity = "critical" /\ h.debtItems[2].severity = "low"
    /\ \E j \in 1..Len(ret.stats.hotFiles) :
           WeightSum(call.items, ret.stats.hotFiles[j].file, 1) > 100
           /\ ret.stats.hotFiles[j].score = 100

\* ---------------------------------------------------------------- harness: getBlame on porcelain streams
MaxHunks == 3

\* the commits of the history: author and author-time of each
CommitAuthor(hash) == IF hash = "c1" THEN "ann" ELSE "bob"
CommitTime(hash) == IF hash = "c1" THEN 100 ELSE 200

\* What git blame --porcelain prints for the hunks <<hash, line>> of a file: for
\* every hunk its header and its content line; between them the commit's
\* author, author-time and further header lines, the first time the commit
\* shows up in the stream only.
RECURSIVE Porcelain(_, _)
Porcelain(hunks, k) ==
    IF k > Len(hunks) THEN <<>>
    ELSE LET hash == hunks[k][1]
             seen == \E j \in 1..(k - 1) : hunks[j][1] = hash
         IN <<[t |-> "hunk", hash |-> hash, line |-> hunks[k][2]]>>
            \o (IF seen THEN <<>>
                ELSE <<[t |-> "author", author |-> CommitAuthor(hash)],
                       [t |-> "other"],
                       [t |-> "time", time |-> CommitTime(hash)],
                       [t |-> "other"]>>)
            \o <<[t |-> "other"]>>
            \o Porcelain(hunks, k + 1)

InitPorcelain ==
    /\ \E hunks \in SeqsUpTo({"c1", "c2"} \X (1..3), MaxHunks) :
           call = [fn |-> "getBlame", filePath |-> FileA, commitSha |-> "c1",
                   hunks |-> hunks, answer |-> GitAnswer(Porcelain(hunks, 1))]
    /\ ret = NoRet
    /\ blameCache = EmptyMap
    /\ BlameIdle /\ PoolIdle /\ ScanIdle

GetBlameReturns ==
    /\ call.fn = "getBlame"
    /\ ret = NoRet
    /\ LET r == getBlame(blameCache, call.filePath, call.commitSha, call.answer) IN
       /\ ret' = [returned |-> TRUE, entries |-> r.entries]
       /\ blameCache' = r.cache
    /\ UNCHANGED <<call, calls, pool, scanVars>>

SpecPorcelain == InitPorcelain /\ [][GetBlameReturns]_vars

\* C15 (as claimed): for every porcelain stream getBlame returns one entry per hunk
\* header, in order, with the header's line number and commit hash and the author
\* and time of that commit.
C15_OneEntryPerHunk ==
    (call.fn = "getBlame" /\ ret.returned) =>
        ret.entries = [k \in 1..Len(call.hunks) |->
                          [line |-> call.hunks[k][2],
                           author |-> CommitAuthor(call.hunks[k][1]),
                           timestamp |-> CommitTime(call.hunks[k][1]),
                           commitHash |-> call.hunks[k][1]]]

\* C16 (as claimed): whatever way getBlame and clearBlameCache calls interleave, a
\* cache key is written at most once between two clears and a stored list is never
\* replaced: no call stores under a key that is already in the cache.
C16_WriteOncePerKey ==
    \A c \in DOMAIN calls : calls[c].stored \in {"none", "first"}

\* analyzers in the order scanWorkspace runs them
RunOrder(kind) == CASE kind = "dep" -> 2 [] kind = "stale" -> 3 [] OTHER -> 1

\* C17: analyzeDependencies runs only once every per-file task of the scan has
\* finished and analyzeStaleness only once analyzeDependencies has returned: while
\* a task is queued or running neither has contributed an item, from the
\* dependency audit on every task is done, and in the returned map the items of the
\* tasks come before those of the audit and those before the stale ones.
C17_PoolDrainsFirst ==
    /\ (\E i \in DOMAIN taskPc : taskPc[i] # "done") => (scanPc = "files" /\ allItems = <<>>)
    /\ scanPc \in {"deps", "returned"} => \A i \in DOMAIN taskPc : taskPc[i] = "done"
    /\ scanPc = "deps" => \A j \in 1..Len(allItems) : allItems[j].kind # "stale"
    /\ \A k \in DOMAIN maps :
           \A i \in 1..Len(maps[k].map.items), j \in 1..Len(maps[k].map.items) :
               i < j => RunOrder(maps[k].map.items[i].kind) <= RunOrder(maps[k].map.items[j].kind)

\* C17 witness: the audit has returned its item, after two tasks that finished in the
\* reverse of the input order, and analyzeStaleness, which will find a stale file,
\* has not run yet.
C17_Witness ==
    /\ scanPc = "deps"
    /\ Len(progress) = 2 /\ progress[1][3] = scanFiles[2]
    /\ \E j \in 1..Len(allItems) : allItems[j].kind = "dep"
    /\ \E j \in 1..Len(allItems) : allItems[j].kind = "todo"
    /\ StaleItemsOf(env, clock) # <<>>

\* the scanned files that import the target, each counted once
ImportersOf(files, contents, target) ==
    {f \in Range(files) :
        /\ HasScriptExt(f)
        /\ contents[f] # ReadError
        /\ \E k \in 1..Len(contents[f].imports) :
               /\ IsRelative(contents[f].imports[k])
               /\ normalizeImportPath(f, contents[f].imports[k]) = target}

\* C18 (as claimed): the fan-in the import graph gives a file, which a stale item
\* states in its message, is the number of distinct scanned files importing it.
C18_FanInCountsFiles ==
    (call.fn = "analyzeStaleness" /\ ret.returned) =>
        \A j \in 1..Len(ret.items) :
            ret.items[j].message[2]
                = Cardinality(ImportersOf(call.files, call.contents, ret.items[j].file))

\* ---------------------------------------------------------------- harness: ids of one file
\* extractFunctions gives each match the line its match.index falls on
\* (content.substring(0, match.index).split('\n').length), in the order of the
\* matches, so the lines of the list never decrease and two functions that start on
\* one source line carry the same line.
MaxIdBody == 2

FunctionLists ==
    {<<[name |-> "f", line |-> l1, body |-> b1], [name |-> "g", line |-> l2, body |-> b2]>> :
        <<l1, l2, b1, b2>> \in
            {t \in (1..MaxLines) \X (1..MaxLines) \X SeqsUpTo({"if", "x"}, MaxIdBody)
                    \X SeqsUpTo({"if", "x"}, MaxIdBody) : t[1] <= t[2]}}

InitIds ==
    /\ \E functions \in FunctionLists, thresholds \in ThresholdSets :
          call = [fn |-> "analyzeComplexity", filePath |-> FileA, commitSha |-> "c1",
                  thresholds |-> thresholds,
                  content |-> FileContentWith(<<>>, functions, <<>>),
                  answer |-> GitError, now |-> HarnessNow]
    /\ ret = NoRet
    /\ blameCache = EmptyMap
    /\ BlameIdle /\ PoolIdle /\ ScanIdle

SpecIds == InitIds /\ [][AnalyzeComplexityReturns]_vars

\* C19 (as claimed): no two of the items analyzeComplexity returns for one file,
\* which scanWorkspace puts into the DebtMap unchanged, carry the same id.
C19_IdsAreUnique ==
    (call.fn = "analyzeComplexity" /\ ret.returned) =>
        \A i, j \in 1..Len(ret.items) : i # j => ret.items[i].id # ret.items[j].id

====
